---- MODULE Spec2Model ----
(***************************************************************************)
(* Model of seller.py: synchronisation of a supplier feed (stock and       *)
(* prices of watches) with the catalog of an Ozon seller.                  *)
(*                                                                         *)
(* Text that the code parses (quantities, prices) is a sequence of         *)
(* Unicode code points, written Text(<<">", "1", "0">>) for ASCII text;    *)
(* offer ids and record codes are only compared for equality and are       *)
(* atomic strings.  A supplier record is                                   *)
(*   [code |-> "Код", quantity |-> "Количество", price |-> "Цена"].        *)
(***************************************************************************)
EXTENDS Integers, Sequences, FiniteSets, TLC

VARIABLES
    entry,          \* entry point running: main, upload_stocks, upload_prices, or a direct call
    pc,             \* position of the running entry point
    requests,       \* number of page requests get_offer_ids has issued
    last_id,        \* get_offer_ids: the cursor
    product_list,   \* get_offer_ids: the accumulated items
    some_prod,      \* get_offer_ids: the last page received
    catalog,        \* the list get_offer_ids returned (never mutated afterwards)
    offer_ids,      \* the caller's list object holding that result (mutated by create_stocks)
    watch_remnants, \* the supplier feed
    stocks,         \* result of create_stocks
    prices,         \* result of create_prices
    batches,        \* list(divide(...)) of the phase being submitted
    next,           \* index in batches of the next chunk to submit
    log,            \* every update_stocks / update_price request made, in order
    not_empty,      \* upload_stocks: the stocks that are not zero
    error,          \* the exception that ended the run, "" if none
    call,           \* direct call of a function: its arguments
    ret             \* direct call of a function: its outcome

vars == <<entry, pc, requests, last_id, product_list, some_prod, catalog, offer_ids,
          watch_remnants, stocks, prices, batches, next, log, not_empty, error, call, ret>>

syncVars == <<requests, last_id, product_list, some_prod, catalog, offer_ids,
              watch_remnants, stocks, prices, batches, next, log, not_empty, error>>

-----------------------------------------------------------------------------
(* Bounds of the model *)

MaxFeedLen == 2         \* records in a supplier feed (sync runs)
MaxCallFeedLen == 3     \* records in a supplier feed (direct calls of create_stocks)
MaxLongFeedLen == 2     \* the same, for feeds that may hold quantities of thousands of digits
MaxPageLen == 2         \* items in a small page of the list endpoint
MaxTotal == 2           \* largest small "total" the list endpoint reports
MaxRequests == 2        \* page requests before the model stops following get_offer_ids
MaxListLen == 5         \* length of a list given to divide
MaxChunk == 3           \* divide is called with n in -MaxChunk..MaxChunk
MaxPriceLen == 4        \* characters in a raw price given to price_conversion
BigCatalogLen == 201    \* a catalog that needs three stock requests
BigFeedLen == 1001      \* a feed that needs two price requests

(* Program constants *)

limit == 1000               \* get_product_list: page size requested
StocksPerRequest == 100     \* main, upload_stocks: divide(stocks, 100)
PricesPerRequestMain == 900 \* main: divide(prices, 900)
PricesPerRequest == 1000    \* upload_prices: divide(prices, 1000)
MaxStrDigits == 4300        \* int: sys.get_int_max_str_digits(), which seller.py leaves alone

-----------------------------------------------------------------------------
(* Python helpers *)

Min(S) == CHOOSE x \in S : \A y \in S : x <= y

\* The printable ASCII characters, from code point 32 (the space) on; the double quote,
\* the backslash and the backtick are held by name
Ascii ==
    <<" ", "!", "QUOTE", "#", "$", "%", "&", "'", "(", ")", "*", "+", ",", "-", ".", "/",
      "0", "1", "2", "3", "4", "5", "6", "7", "8", "9", ":", ";", "<", "=", ">", "?",
      "@", "A", "B", "C", "D", "E", "F", "G", "H", "I", "J", "K", "L", "M", "N", "O",
      "P", "Q", "R", "S", "T", "U", "V", "W", "X", "Y", "Z", "[", "BACKSLASH", "]", "^", "_",
      "BACKTICK", "a", "b", "c", "d", "e", "f", "g", "h", "i", "j", "k", "l", "m", "n", "o",
      "p", "q", "r", "s", "t", "u", "v", "w", "x", "y", "z", "{", "|", "}", "~">>

\* ord(c) of a printable ASCII character, and the code points of an ASCII text
Ord(c) == 31 + (CHOOSE i \in 1..Len(Ascii) : Ascii[i] = c)
Text(s) == [i \in 1..Len(s) |-> Ord(s[i])]

\* [0-9] in a str pattern of re: the ASCII digits only
AsciiDigits == Ord("0")..Ord("9")
IsDigit(c) == c \in AsciiDigits

\* The characters int() skips at both ends of a str: the ASCII blanks of C's isspace
\* (tab, LF, VT, FF, CR, space) and the Unicode spaces beyond ASCII.  The separators
\* 28..31, which str.strip() removes, are not skipped: int("\x1c7") raises ValueError.
IntSpaces ==
    {9, 10, 11, 12, 13, 32, 133, 160, 5760, 8192, 8193, 8194, 8195, 8196, 8197, 8198,
     8199, 8200, 8201, 8202, 8232, 8233, 8239, 8287, 12288}

\* The decimal digits int() reads are those of every script (Unicode category Nd):
\* runs of ten code points, each run starting at the script's zero.
DecimalZeros ==
    {48, 1632, 1776, 1984, 2406, 2534, 2662, 2790, 2918, 3046, 3174, 3302, 3430, 3558,
     3664, 3792, 3872, 4160, 4240, 6112, 6160, 6470, 6608, 6784, 6800, 6992, 7088,
     7232, 7248, 42528, 43216, 43264, 43472, 43504, 43600, 44016, 65296, 66720, 68912,
     69734, 69872, 69942, 70096, 70384, 70736, 70864, 71248, 71360, 71472, 71904,
     72016, 72784, 73040, 73120, 92768, 92864, 93008, 120782, 120792, 120802, 120812,
     120822, 123200, 123632, 125264, 130032}

\* (the ASCII run is looked at first)
IsDecimal(c) == c \in AsciiDigits \/ \E z \in DecimalZeros : c \in z..(z + 9)
DecimalVal(c) ==
    IF c \in AsciiDigits THEN c - Min(AsciiDigits)
    ELSE c - (CHOOSE z \in DecimalZeros : c \in z..(z + 9))

\* x in lst
InList(x, lst) == \E i \in 1..Len(lst) : lst[i] = x

\* lst.remove(x), for x in lst: drops the first occurrence
RemoveSwap(lst, x) ==
    LET k == Min({i \in 1..Len(lst) : lst[i] = x})
    IN  IF k = Len(lst) THEN SubSeq(lst, 1, k - 1)
        ELSE SubSeq(lst, 1, k - 1) \o <<lst[Len(lst)]>> \o SubSeq(lst, k + 1, Len(lst) - 1)
RemoveNothing(lst, x) == lst
Remove(lst, x) ==
    LET k == Min({i \in 1..Len(lst) : lst[i] = x})
    IN  SubSeq(lst, 1, k - 1) \o SubSeq(lst, k + 1, Len(lst))

\* the text int() is left with once it has skipped the spaces at both ends
SkipSpaces(s) ==
    LET IsSpace(i) == s[i] \in IntSpaces
        first == CHOOSE i \in 1..Len(s) : ~IsSpace(i) /\ \A j \in 1..(i - 1) : IsSpace(j)
        last == CHOOSE i \in 1..Len(s) : ~IsSpace(i) /\ \A j \in (i + 1)..Len(s) : IsSpace(j)
    IN  IF \A i \in 1..Len(s) : IsSpace(i) THEN <<>> ELSE SubSeq(s, first, last)

\* the value of a text of decimal digits that starts with no zero
RECURSIVE DigitsValue(_)
DigitsValue(ds) ==
    IF ds = <<>> THEN 0
    ELSE 10 * DigitsValue(SubSeq(ds, 1, Len(ds) - 1)) + DecimalVal(ds[Len(ds)])

\* the value of a text of decimal digits: its leading zeros add nothing
Magnitude(ds) ==
    LET IsZero(i) == DecimalVal(ds[i]) = 0
        first == CHOOSE i \in 1..Len(ds) : ~IsZero(i) /\ \A j \in 1..(i - 1) : IsZero(j)
    IN  IF \A i \in 1..Len(ds) : IsZero(i) THEN 0 ELSE DigitsValue(SubSeq(ds, first, Len(ds)))

Signs == {Ord("+"), Ord("-")}
Minus == Ord("-")
Underscore == Ord("_")

\* int(s) for a str s: spaces skipped at both ends, one optional ASCII sign, decimal
\* digits that single underscores may separate, at most MaxStrDigits digits (leading
\* zeros counted, sign and underscores not); anything else raises ValueError
int(s) ==
    LET t == SkipSpaces(s)
        signed == t # <<>> /\ t[1] \in Signs
        body == IF signed THEN Tail(t) ELSE t
        valid == /\ body # <<>>
                 /\ \A i \in 1..Len(body) : IsDecimal(body[i]) \/ body[i] = Underscore
                 /\ IsDecimal(body[1])
                 /\ IsDecimal(body[Len(body)])
                 /\ \A i \in 1..(Len(body) - 1) :
                        ~(body[i] = Underscore /\ body[i + 1] = Underscore)
        digits == SelectSeq(body, IsDecimal)
    IN  IF ~valid \/ Len(digits) > MaxStrDigits THEN [ok |-> FALSE, value |-> 0]
        ELSE [ok |-> TRUE,
              value |-> IF signed /\ t[1] = Minus THEN 0 - Magnitude(digits)
                        ELSE Magnitude(digits)]

\* len(range(start, stop, step)) for step # 0
RangeLen(start, stop, step) ==
    IF step > 0
    THEN IF stop <= start THEN 0 ELSE (stop - start + step - 1) \div step
    ELSE IF stop >= start THEN 0 ELSE (start - stop - step - 1) \div (0 - step)

\* lst[a:b] for 0 <= a <= b
Slice(lst, a, b) == SubSeq(lst, a + 1, IF b < Len(lst) THEN b ELSE Len(lst))

-----------------------------------------------------------------------------
(* create_stocks *)

\* the quantities create_stocks compares with: ">10" and "1"
Over10 == Text(<<">", "1", "0">>)
One == Text(<<"1">>)

\* the stock of a record, from its quantity (lines 208-214)
StockOfNoSentinel(watch) ==
    IF watch.quantity = Over10 THEN [ok |-> TRUE, value |-> 100]
    ELSE int(watch.quantity)
StockOf(watch) ==
    LET count == watch.quantity
    IN  IF count = Over10 THEN [ok |-> TRUE, value |-> 100]
        ELSE IF count = One THEN [ok |-> TRUE, value |-> 0]
        ELSE int(watch.quantity)

\* the first loop of create_stocks, from record i on
RECURSIVE create_stocks_feed(_, _, _, _)
create_stocks_feed(feed, i, acc, ids) ==
    IF i > Len(feed) THEN [ok |-> TRUE, error |-> "", stocks |-> acc, offer_ids |-> ids]
    ELSE IF ~InList(feed[i].code, ids) THEN create_stocks_feed(feed, i + 1, acc, ids)
    ELSE LET stock == StockOf(feed[i])
         IN  IF ~stock.ok
             THEN [ok |-> FALSE, error |-> "ValueError", stocks |-> <<>>, offer_ids |-> ids]
             ELSE create_stocks_feed(feed, i + 1,
                      Append(acc, [offer_id |-> feed[i].code, stock |-> stock.value]),
                      Remove(ids, feed[i].code))

\* the second loop of create_stocks
ZeroStocks(ids) == [i \in 1..Len(ids) |-> [offer_id |-> ids[i], stock |-> 0]]

\* create_stocks(watch_remnants, offer_ids): the list returned, or the exception, and
\* what is left in the caller's list offer_ids
create_stocks(feed, ids) ==
    LET r == create_stocks_feed(feed, 1, <<>>, ids)
    IN  IF r.ok THEN [r EXCEPT !.stocks = r.stocks \o ZeroStocks(r.offer_ids)] ELSE r

-----------------------------------------------------------------------------
(* create_prices, price_conversion *)

\* price.split(".")[0]
BeforePoint(price) ==
    LET dots == {i \in 1..Len(price) : price[i] = Ord(".")}
    IN  IF dots = {} THEN price ELSE SubSeq(price, 1, Min(dots) - 1)

price_conversion(price) == SelectSeq(BeforePoint(price), IsDigit)

PriceUpdate(watch) ==
    [auto_action_enabled |-> "UNKNOWN",
     currency_code |-> "RUB",
     offer_id |-> watch.code,
     old_price |-> Text(<<"0">>),
     price |-> price_conversion(watch.price)]

create_prices(feed, ids) ==
    LET known == SelectSeq(feed, LAMBDA watch : InList(watch.code, ids))
    IN  [i \in 1..Len(known) |-> PriceUpdate(known[i])]

-----------------------------------------------------------------------------
(* divide *)

\* list(divide(lst, n)): range(0, len(lst), 0) raises ValueError
divide_short(lst, n) ==
    IF n = 0 THEN [ok |-> FALSE, error |-> "ValueError", chunks |-> <<>>]
    ELSE [ok |-> TRUE, error |-> "",
          chunks |-> [k \in 1..RangeLen(0, Len(lst), n) |->
                          Slice(lst, (k - 1) * n, (k - 1) * n + n - 1)]]
divide(lst, n) ==
    IF n = 0 THEN [ok |-> FALSE, error |-> "ValueError", chunks |-> <<>>]
    ELSE [ok |-> TRUE, error |-> "",
          chunks |-> [k \in 1..RangeLen(0, Len(lst), n) |->
                          Slice(lst, (k - 1) * n, (k - 1) * n + n)]]

-----------------------------------------------------------------------------
(* Direct calls of divide, price_conversion and create_stocks *)

NoCall == [fn |-> "none"]
NoRet == [ok |-> FALSE, error |-> "not called"]

SeqsUpTo(S, n) == UNION {[1..k -> S] : k \in 0..n}
DistinctSeqs(S, n) == {s \in SeqsUpTo(S, n) : \A i, j \in 1..Len(s) : s[i] = s[j] => i = j}

CallIds == {"A", "B", "C"}
CallCodes == {"A", "B", "Z"}
\* " -3" followed by a line feed, its 3 the ARABIC-INDIC DIGIT THREE (code point 1635)
MinusThree == <<Ord(" "), Ord("-"), 1635, 10>>
CallQuantities == {Over10, One, Text(<<"7">>), MinusThree, Text(<<"x">>)}
CallPrice == Text(<<"1", "0", "0", ".", "0", "0", " ", "p">>)
CallRecords == {[code |-> c, quantity |-> q, price |-> CallPrice] :
                    c \in CallCodes, q \in CallQuantities}
\* 7 written with as many digits as int() takes, and with one digit more
SevenAtLimit == [i \in 1..(MaxStrDigits - 1) |-> Ord("0")] \o Text(<<"7">>)
SevenOverLimit == [i \in 1..MaxStrDigits |-> Ord("0")] \o Text(<<"7">>)
LongRecords == {[code |-> c, quantity |-> q, price |-> CallPrice] :
                    c \in CallCodes, q \in {SevenAtLimit, SevenOverLimit}}
PriceChars == {Ord(c) : c \in {"1", "0", "9", ".", "'", " ", "p"}}
ListItems == {"a", "b"}

Blank ==
    /\ requests = 0
    /\ last_id = ""
    /\ product_list = <<>>
    /\ some_prod = [items |-> <<>>, total |-> 0, last_id |-> ""]
    /\ catalog = <<>>
    /\ offer_ids = <<>>
    /\ stocks = <<>>
    /\ prices = <<>>
    /\ batches = <<>>
    /\ next = 1
    /\ log = <<>>
    /\ not_empty = <<>>
    /\ error = ""

CallInit ==
    /\ entry = "call"
    /\ pc = "call"
    /\ ret = NoRet
    /\ Blank
    /\ watch_remnants = <<>>
    /\ \/ \E lst \in SeqsUpTo(ListItems, MaxListLen), n \in (0 - MaxChunk)..MaxChunk :
              call = [fn |-> "divide", lst |-> lst, n |-> n]
       \/ \E price \in SeqsUpTo(PriceChars, MaxPriceLen) :
              call = [fn |-> "price_conversion", price |-> price]
       \/ \E feed \in SeqsUpTo(CallRecords, MaxCallFeedLen)
                          \cup SeqsUpTo(LongRecords, MaxLongFeedLen),
             ids \in DistinctSeqs(CallIds, Cardinality(CallIds)) :
              call = [fn |-> "create_stocks", watch_remnants |-> feed, offer_ids |-> ids]

CallDivide ==
    /\ pc = "call" /\ call.fn = "divide"
    /\ ret' = divide(call.lst, call.n)
    /\ pc' = "returned"
    /\ UNCHANGED <<entry, call, syncVars>>

CallPriceConversion ==
    /\ pc = "call" /\ call.fn = "price_conversion"
    /\ ret' = [ok |-> TRUE, error |-> "", value |-> price_conversion(call.price)]
    /\ pc' = "returned"
    /\ UNCHANGED <<entry, call, syncVars>>

CallCreateStocks ==
    /\ pc = "call" /\ call.fn = "create_stocks"
    /\ ret' = create_stocks(call.watch_remnants, call.offer_ids)
    /\ pc' = "returned"
    /\ UNCHANGED <<entry, call, syncVars>>

CallNext == CallDivide \/ CallPriceConversion \/ CallCreateStocks

CallSpec == CallInit /\ [][CallNext]_vars

Returned(fn) == pc = "returned" /\ call.fn = fn

-----------------------------------------------------------------------------
(* The sync runs: main, upload_stocks, upload_prices *)

SyncIds == {"A", "B"}
FeedCodes == {"A", "B", "Z"}
FeedQuantities == {Over10, Text(<<"x">>)}
FeedPrice == Text(<<"1", "0", "0", ".", "0", "0", " ", "p">>)
Records == {[code |-> c, quantity |-> q, price |-> FeedPrice] :
                c \in FeedCodes, q \in FeedQuantities}
Feeds == SeqsUpTo(Records, MaxFeedLen)
BigFeed == [i \in 1..BigFeedLen |->
                [code |-> "A", quantity |-> Over10, price |-> FeedPrice]]
BigCatalog == [i \in 1..BigCatalogLen |-> ToString(i)]
Cursors == {"c"}

\* The pages the list endpoint may answer with: offer ids are unique in a catalog, so
\* a page brings ids not seen yet (possibly none), at most `limit` of them.
Pages(seen) ==
    {items \in DistinctSeqs(SyncIds \ {seen[i] : i \in 1..Len(seen)}, MaxPageLen)
               \cup (IF seen = <<>> THEN {BigCatalog} ELSE {}) :
        Len(items) <= limit}
Totals == 0..MaxTotal \cup {BigCatalogLen}

\* response.raise_for_status(): raises unless the request succeeded
NeverRaises(ok) == FALSE
RaisesForStatus(ok) == ~ok

SyncInit ==
    /\ pc = "get_offer_ids"
    /\ call = NoCall
    /\ ret = NoRet
    /\ Blank
    /\ \/ entry = "main" /\ watch_remnants = <<>>
       \/ entry = "upload_stocks" /\ watch_remnants \in Feeds
       \/ entry = "upload_prices" /\ watch_remnants \in Feeds \cup {BigFeed}

\* where the caller of get_offer_ids goes on
AfterOfferIds ==
    CASE entry = "main" -> "download_stock"
      [] entry = "upload_stocks" -> "create_stocks"
      [] entry = "upload_prices" -> "create_prices"

\* get_offer_ids: one turn of its loop, a request to the list endpoint and the test
\* that ends the loop; when the loop ends the function returns the offer ids.
GetProductList ==
    /\ pc = "get_offer_ids"
    /\ requests < MaxRequests
    /\ requests' = requests + 1
    /\ \/ /\ RaisesForStatus(FALSE)
          /\ error' = "HTTPError"
          /\ pc' = "failed"
          /\ UNCHANGED <<last_id, product_list, some_prod, catalog, offer_ids>>
       \/ \E items \in Pages(product_list), total \in Totals, cursor \in Cursors :
             /\ ~RaisesForStatus(TRUE)
             /\ some_prod' = [items |-> items, total |-> total, last_id |-> cursor]
             /\ product_list' = product_list \o items
             /\ last_id' = cursor
             /\ IF total = Len(product_list')
                THEN /\ catalog' = product_list'
                     /\ offer_ids' = product_list'
                     /\ pc' = AfterOfferIds
                ELSE UNCHANGED <<catalog, offer_ids, pc>>
             /\ UNCHANGED error
    /\ UNCHANGED <<entry, watch_remnants, stocks, prices, batches, next, log, not_empty,
                   call, ret>>

\* main: download_stock()
DownloadStock ==
    /\ pc = "download_stock"
    /\ \/ /\ RaisesForStatus(FALSE)
          /\ error' = "HTTPError"
          /\ pc' = "failed"
          /\ UNCHANGED watch_remnants
       \/ \E feed \in Feeds :
             /\ ~RaisesForStatus(TRUE)
             /\ watch_remnants' = feed
             /\ pc' = "create_stocks"
             /\ UNCHANGED error
    /\ UNCHANGED <<entry, requests, last_id, product_list, some_prod, catalog, offer_ids,
                   stocks, prices, batches, next, log, not_empty, call, ret>>

\* stocks = create_stocks(watch_remnants, offer_ids); list(divide(stocks, 100))
CreateStocks ==
    /\ pc = "create_stocks"
    /\ LET r == create_stocks(watch_remnants, offer_ids)
       IN  /\ offer_ids' = r.offer_ids
           /\ IF r.ok
              THEN /\ stocks' = r.stocks
                   /\ batches' = divide(r.stocks, StocksPerRequest).chunks
                   /\ next' = 1
                   /\ pc' = "update_stocks"
                   /\ UNCHANGED error
              ELSE /\ error' = r.error
                   /\ pc' = "failed"
                   /\ UNCHANGED <<stocks, batches, next>>
    /\ UNCHANGED <<entry, requests, last_id, product_list, some_prod, catalog,
                   watch_remnants, prices, log, not_empty, call, ret>>

\* one turn of "for some_stock in ...: update_stocks(some_stock, ...)"
UpdateStocks ==
    /\ pc = "update_stocks"
    /\ next <= Len(batches)
    /\ \E ok \in BOOLEAN :
          /\ log' = Append(log, [request |-> "update_stocks", index |-> next,
                                 body |-> batches[next], ok |-> ok])
          /\ IF RaisesForStatus(ok)
             THEN error' = "HTTPError" /\ pc' = "failed" /\ UNCHANGED next
             ELSE next' = next + 1 /\ UNCHANGED <<error, pc>>
    /\ UNCHANGED <<entry, requests, last_id, product_list, some_prod, catalog, offer_ids,
                   watch_remnants, stocks, prices, batches, not_empty, call, ret>>

\* the stock loop is over: main goes on to the prices, upload_stocks returns
StocksUploaded ==
    /\ pc = "update_stocks"
    /\ next > Len(batches)
    /\ IF entry = "main"
       THEN pc' = "create_prices" /\ UNCHANGED not_empty
       ELSE /\ not_empty' = SelectSeq(stocks, LAMBDA stock : stock.stock # 0)
            /\ pc' = "done"
    /\ UNCHANGED <<entry, requests, last_id, product_list, some_prod, catalog, offer_ids,
                   watch_remnants, stocks, prices, batches, next, log, error, call, ret>>

\* prices = create_prices(watch_remnants, offer_ids); list(divide(prices, 900 or 1000))
CreatePrices ==
    /\ pc = "create_prices"
    /\ prices' = create_prices(watch_remnants, offer_ids)
    /\ batches' = divide(prices', IF entry = "main" THEN PricesPerRequestMain
                                  ELSE PricesPerRequest).chunks
    /\ next' = 1
    /\ pc' = "update_price"
    /\ UNCHANGED <<entry, requests, last_id, product_list, some_prod, catalog, offer_ids,
                   watch_remnants, stocks, log, not_empty, error, call, ret>>

\* one turn of "for some_price in ...: update_price(some_price, ...)"
UpdatePrice ==
    /\ pc = "update_price"
    /\ next <= Len(batches)
    /\ \E ok \in BOOLEAN :
          /\ log' = Append(log, [request |-> "update_price", index |-> next,
                                 body |-> batches[next], ok |-> ok])
          /\ IF RaisesForStatus(ok)
             THEN error' = "HTTPError" /\ pc' = "failed" /\ UNCHANGED next
             ELSE next' = next + 1 /\ UNCHANGED <<error, pc>>
    /\ UNCHANGED <<entry, requests, last_id, product_list, some_prod, catalog, offer_ids,
                   watch_remnants, stocks, prices, batches, not_empty, call, ret>>

\* the price loop is over: the run ends
PricesUploaded ==
    /\ pc = "update_price"
    /\ next > Len(batches)
    /\ pc' = "done"
    /\ UNCHANGED <<entry, requests, last_id, product_list, some_prod, catalog, offer_ids,
                   watch_remnants, stocks, prices, batches, next, log, not_empty, error,
                   call, ret>>

Init == SyncInit

Next ==
    \/ GetProductList
    \/ DownloadStock
    \/ CreateStocks
    \/ UpdateStocks
    \/ StocksUploaded
    \/ CreatePrices
    \/ UpdatePrice
    \/ PricesUploaded

Spec == Init /\ [][Next]_vars

-----------------------------------------------------------------------------
(* Properties of the sync runs *)

\* the requests made to an endpoint, in order, whatever their outcome
Requested(request) == SelectSeq(log, LAMBDA e : e.request = request)

\* C1: in a run of main in which every request succeeds, the price updates submitted
\* hold a PriceUpdate for every feed record whose code is in the catalog snapshot
\* fetched at the start of the run.
C1_PricesCoverKnownFeed ==
    (entry = "main" /\ pc = "done") =>
        \A i \in 1..Len(watch_remnants) :
            InList(watch_remnants[i].code, catalog) =>
                \E j \in 1..Len(log) :
                    /\ log[j].request = "update_price"
                    /\ log[j].ok
                    /\ \E k \in 1..Len(log[j].body) :
                           log[j].body[k] = PriceUpdate(watch_remnants[i])

\* C3: get_offer_ids fails, instead of issuing another page request, when a page
\* brings no new item while the accumulated count has not reached total.
C3_StalledPageFails ==
    (/\ requests > 0
     /\ some_prod.items = <<>>
     /\ some_prod.total # Len(product_list)) => pc # "get_offer_ids"

\* the chunk of lst at position index, for chunks of n
ChunkAt(lst, n, index) ==
    SubSeq(lst, (index - 1) * n + 1, IF index * n < Len(lst) THEN index * n ELSE Len(lst))

InListOrder(request, lst, n) ==
    LET sent == Requested(request)
    IN  \A i \in 1..Len(sent) :
            /\ sent[i].index = i
            /\ (i - 1) * n < Len(lst)
            /\ sent[i].body = ChunkAt(lst, n, i)

\* C6: within a phase the chunks are submitted one at a time in list order, each at
\* most once; when the submission of a chunk fails the run has failed and no request
\* follows it, the chunks before it having been submitted successfully.
C6_ChunksInOrderUntilFailure ==
    /\ InListOrder("update_stocks", stocks, StocksPerRequest)
    /\ InListOrder("update_price", prices,
                   IF entry = "main" THEN PricesPerRequestMain ELSE PricesPerRequest)
    /\ \A i \in 1..Len(log) :
           ~log[i].ok => i = Len(log) /\ pc = "failed" /\ error = "HTTPError"

\* the second of three stock chunks fails after the first was accepted
C6_Witness ==
    /\ pc = "failed"
    /\ Len(batches) = 3
    /\ Len(log) = 2
    /\ log[1].request = "update_stocks" /\ log[1].ok /\ Len(log[1].body) = StocksPerRequest
    /\ log[2].request = "update_stocks" /\ ~log[2].ok /\ log[2].index = 2

\* C9: the price updates a run submits (in requests that succeed) hold at most one
\* PriceUpdate per offer id.
C9_OnePricePerOffer ==
    LET sent == SelectSeq(Requested("update_price"), LAMBDA e : e.ok)
    IN  \A j1, j2 \in 1..Len(sent) :
            \A k1 \in 1..Len(sent[j1].body), k2 \in 1..Len(sent[j2].body) :
                sent[j1].body[k1].offer_id = sent[j2].body[k2].offer_id
                    => j1 = j2 /\ k1 = k2

-----------------------------------------------------------------------------
(* Properties of create_stocks, called directly *)

\* record i of the feed is the first one carrying its code, and the code is in ids
FirstOfKnown(feed, ids, i) ==
    /\ InList(feed[i].code, ids)
    /\ \A j \in 1..(i - 1) : feed[j].code # feed[i].code

\* the quantities the calls use that are an integer written as a string of at most
\* MaxStrDigits digits, and the integer each quantity writes
ShortIntegers == {Text(<<"1">>), Text(<<"7">>), MinusThree, SevenAtLimit}
StockExpected(q) ==
    CASE q = Text(<<">", "1", "0">>) -> 100
      [] q = Text(<<"1">>) -> 0
      [] q = Text(<<"7">>) -> 7
      [] q = MinusThree -> 0 - 3
      [] q = SevenAtLimit -> 7
      [] q = SevenOverLimit -> 7

\* C2: create_stocks(F, C), C of pairwise distinct offer ids, returns exactly |C| stock
\* updates: each offer id of C is the offer_id of exactly one update, and no update has
\* an offer_id outside C.
C2_OneUpdatePerOffer ==
    (Returned("create_stocks") /\ ret.ok) =>
        /\ Len(ret.stocks) = Len(call.offer_ids)
        /\ \A k \in 1..Len(call.offer_ids) :
               Cardinality({i \in 1..Len(ret.stocks) :
                                ret.stocks[i].offer_id = call.offer_ids[k]}) = 1
        /\ \A i \in 1..Len(ret.stocks) : InList(ret.stocks[i].offer_id, call.offer_ids)

\* a feed with a repeated code of the catalog and a code outside the catalog
C2_Witness ==
    /\ Returned("create_stocks") /\ ret.ok
    /\ Len(call.offer_ids) = 3
    /\ \E i, j \in 1..Len(call.watch_remnants) :
           /\ i < j
           /\ call.watch_remnants[i].code = call.watch_remnants[j].code
           /\ InList(call.watch_remnants[i].code, call.offer_ids)
    /\ \E i \in 1..Len(call.watch_remnants) :
           ~InList(call.watch_remnants[i].code, call.offer_ids)

\* create_stocks maps ">10" to 100, "1" to 0 and every quantity of `integers` to the
\* integer it writes, and fails, returning no list, on any other quantity of a record
\* whose code is in the working set
QuantityMapping(integers) ==
    Returned("create_stocks") =>
        LET feed == call.watch_remnants
            ids == call.offer_ids
            mapped == {i \in 1..Len(feed) : FirstOfKnown(feed, ids, i)}
            bad == {i \in mapped :
                        /\ feed[i].quantity # Text(<<">", "1", "0">>)
                        /\ feed[i].quantity \notin integers}
        IN  /\ ret.ok <=> bad = {}
            /\ ~ret.ok => ret.error = "ValueError" /\ ret.stocks = <<>>
            /\ ret.ok => \A i \in mapped :
                   \E k \in 1..Len(ret.stocks) :
                       ret.stocks[k] = [offer_id |-> feed[i].code,
                                        stock |-> StockExpected(feed[i].quantity)]

\* C7: for a record whose code is in the working set, ">10" gives stock 100, "1" gives
\* 0, any other integer written as a string gives that integer, and a quantity that is
\* neither makes create_stocks fail and return no list.
C7_QuantityMapping == QuantityMapping(ShortIntegers \cup {SevenOverLimit})

\* C7, amended: for a record whose code is in the working set, ">10" gives stock 100,
\* "1" gives 0, any other integer written as a string of at most 4300 digits gives that
\* integer, and any other quantity, an integer of more than 4300 digits included, makes
\* create_stocks fail with ValueError and return no list.
C7_QuantityMappingWithinLimit == QuantityMapping(ShortIntegers)

\* a call that maps two records whose quantity is a 7 of 4300 digits
C7_Witness ==
    /\ Returned("create_stocks") /\ ret.ok
    /\ Len(call.watch_remnants) = 2
    /\ call.watch_remnants[1].quantity = SevenAtLimit
    /\ call.watch_remnants[2].quantity = SevenAtLimit
    /\ Len(ret.stocks) >= 2
    /\ ret.stocks[1] = [offer_id |-> call.watch_remnants[1].code, stock |-> 7]
    /\ ret.stocks[2] = [offer_id |-> call.watch_remnants[2].code, stock |-> 7]

\* C10: the list returned holds first the updates of the catalog offer ids the feed
\* covers, in the order of the first feed record carrying each code, then a zero-stock
\* update for each catalog offer id the feed does not cover, in catalog order.
C10_StockOrder ==
    (Returned("create_stocks") /\ ret.ok) =>
        LET feed == call.watch_remnants
            ids == call.offer_ids
            first == {i \in 1..Len(feed) : FirstOfKnown(feed, ids, i)}
            covered == [k \in 1..Cardinality(first) |->
                            feed[CHOOSE i \in first :
                                     Cardinality({j \in first : j <= i}) = k].code]
            rest == SelectSeq(ids, LAMBDA o : ~\E i \in 1..Len(feed) : feed[i].code = o)
        IN  /\ [k \in 1..Len(ret.stocks) |-> ret.stocks[k].offer_id] = covered \o rest
            /\ \A k \in (Len(covered) + 1)..Len(ret.stocks) : ret.stocks[k].stock = 0

\* the feed covers the catalog's ids in another order than the catalog's, twice one of
\* them, and leaves an id in the middle of the catalog uncovered
C10_Witness ==
    /\ Returned("create_stocks") /\ ret.ok
    /\ call.offer_ids = <<"A", "C", "B">>
    /\ [i \in 1..Len(call.watch_remnants) |-> call.watch_remnants[i].code] = <<"B", "A", "B">>
    /\ [k \in 1..Len(ret.stocks) |-> ret.stocks[k].offer_id] = <<"B", "A", "C">>

-----------------------------------------------------------------------------
(* Properties of divide, called directly *)

RECURSIVE Concat(_)
Concat(chunks) == IF chunks = <<>> THEN <<>> ELSE Head(chunks) \o Concat(Tail(chunks))

\* C4: for n >= 1, divide(lst, n) yields contiguous slices whose concatenation is lst;
\* every slice but the last has n elements, the last has 1..n, an empty lst yields none.
C4_DivideChunks ==
    (Returned("divide") /\ call.n >= 1) =>
        /\ ret.ok
        /\ Concat(ret.chunks) = call.lst
        /\ \A k \in 1..(Len(ret.chunks) - 1) : Len(ret.chunks[k]) = call.n
        /\ ret.chunks # <<>> =>
               /\ Len(ret.chunks[Len(ret.chunks)]) >= 1
               /\ Len(ret.chunks[Len(ret.chunks)]) <= call.n
        /\ call.lst = <<>> => ret.chunks = <<>>

\* five items by two: two full chunks and a shorter last one
C4_Witness ==
    /\ Returned("divide") /\ call.n = 2 /\ Len(call.lst) = 5
    /\ ret.ok /\ Len(ret.chunks) = 3 /\ Len(ret.chunks[3]) = 1

\* C5: divide(lst, n) fails for every n <= 0 and every lst; it never returns a sequence
\* of chunks for such a size.
C5_NonPositiveSizeFails ==
    (Returned("divide") /\ call.n <= 0) => ~ret.ok

-----------------------------------------------------------------------------
(* Properties of price_conversion, called directly *)

\* C8: price_conversion fails when the part of the raw price before the first decimal
\* point holds no digit; it never returns the empty string.
C8_EmptyPriceFails ==
    Returned("price_conversion") =>
        /\ (\A i \in 1..Len(BeforePoint(call.price)) : ~IsDigit(BeforePoint(call.price)[i]))
               => ~ret.ok
        /\ ret.ok => ret.value # <<>>

====
